---- MODULE Spec2Model ----
(***************************************************************************)
(* Model of misconfig-ConfigMutationTester (src/main.py).                   *)
(*                                                                          *)
(* Two specifications share the mutation actions:                           *)
(*   Spec       one run of main(): parse_args, load_config, mutate_config,  *)
(*              save_config, lint_config, run_test_command, exit code.      *)
(*   SpecEngine one call mutate_config(T, rate) for every tree T of the     *)
(*              bounded input set, traversed key by key as the code does.   *)
(*                                                                          *)
(* Values.  Every Python value of a configuration document is a record      *)
(*   [t, n, s, kids]: t is the runtime type, n the numeric payload (the     *)
(*   integer, the float in units of 1/FloatDen, the bool as 0/1 - a Python  *)
(*   bool IS an int), s the characters of a string / the elements of a list *)
(*   / the keys of a dict in insertion order, kids the dict's values.       *)
(* Probabilities are in units of 1/Scale: random.random() yields 0..Scale-1 *)
(* and a rate is 0..Scale.                                                  *)
(***************************************************************************)
EXTENDS Integers, Sequences, FiniteSets, TLC

\* ---------------------------------------------------------------- bounds
MaxKeys == 2
MaxDepth == 2
MaxLeaves == 3
Scale == 10
FloatDen == 4

\* ------------------------------------------------------ program constants
MinAppend == 1
MaxAppend == 5
MaxDelta == 5
InvocationErrorCode == -1
ExitFailure == 1
ExitSuccess == 0
ExitUsage == 2

\* ------------------------------------------------------------- values
Node(t, n, s, kids) == [t |-> t, n |-> n, s |-> s, kids |-> kids]
PyStr(s) == Node("str", 0, s, <<>>)
PyInt(n) == Node("int", n, <<>>, <<>>)
PyFloat(n) == Node("float", n, <<>>, <<>>)
PyBool(b) == Node("bool", IF b THEN 1 ELSE 0, <<>>, <<>>)
PyList(s) == Node("list", 0, s, <<>>)
PyNone == Node("none", 0, <<>>, <<>>)
PyDict(kids) == Node("dict", 0, [i \in 1..Len(kids) |-> i], kids)
Unset == Node("unset", 0, <<>>, <<>>)

\* isinstance(value, cls): bool is a subclass of int.
IsInstance(value, cls) ==
    CASE cls = "str" -> value.t = "str"
      [] cls = "int" -> value.t \in {"int", "bool"}
      [] cls = "float" -> value.t = "float"
      [] cls = "bool" -> value.t = "bool"
      [] cls = "dict" -> value.t = "dict"
      [] OTHER -> FALSE

\* The characters random.choice(chars) draws from, abstracted to one symbol
\* class per element.
Chars == {7}

\* random.random(): the smallest and the largest value it can return.
UniformDraws == {0, Scale - 1}

\* random.randint(lo, hi): both ends of the closed range, and 0 when inside.
RandInt(lo, hi) == { x \in lo..hi : x = lo \/ x = hi \/ x = 0 }

\* random.uniform(-0.5, 0.5) in units of 1/FloatDen: both ends and 0.
RandUniformHalf == {0 - (FloatDen \div 2), 0, FloatDen \div 2}

RemoveSpan(s, start, num) ==
    SubSeq(s, 1, start) \o SubSeq(s, start + num + 1, Len(s))

MvResult(v, calls, warned) == [value |-> v, calls |-> calls, warned |-> warned]

\* The string branch of mutate_value: every result the random source allows.
MutateStr(value) ==
    LET s == value.s
        appended ==
            UNION { { MvResult(PyStr(s \o cs), 2 + num, FALSE) :
                        cs \in [1..num -> Chars] } :
                    num \in RandInt(MinAppend, MaxAppend) }
        removed ==
            IF Len(s) > 2
            THEN UNION { { MvResult(PyStr(RemoveSpan(s, start, num)), 3, FALSE) :
                             start \in RandInt(0, Len(s) - num) } :
                         num \in RandInt(1, Len(s) \div 2) }
            ELSE { MvResult(PyStr(<<>>), 1, FALSE) }
    IN  UNION { IF 2 * branch < Scale THEN appended ELSE removed :
                branch \in UniformDraws }

\* value += random.randint(-5, 5); the sum of an int (or a bool) is an int.
MutateInt(value) ==
    { MvResult(PyInt(value.n + d), 1, FALSE) :
        d \in RandInt(0 - MaxDelta, MaxDelta) }

\* value += random.uniform(-0.5, 0.5)
MutateFloat(value) ==
    { MvResult(PyFloat(value.n + d), 1, FALSE) : d \in RandUniformHalf }

\* value = not value
MutateBool(value) == { MvResult(PyBool(value.n = 0), 0, FALSE) }

\* The else branch without its `return value`: the warning, and None.
MutateUnsupportedDropsValue(value) == { MvResult(PyNone, 0, TRUE) }

\* The else branch: the warning, and the value as it came.
MutateUnsupported(value) == { MvResult(value, 0, TRUE) }

\* mutate_value(value): the set of [value, calls, warned] the call can
\* produce; calls counts the draws it takes from the random source and
\* warned tells whether the unsupported-type warning was logged.
mutate_value(value) ==
    IF IsInstance(value, "str") THEN MutateStr(value)
    ELSE IF IsInstance(value, "int") THEN MutateInt(value)
    ELSE IF IsInstance(value, "float") THEN MutateFloat(value)
    ELSE IF IsInstance(value, "bool") THEN MutateBool(value)
    ELSE MutateUnsupported(value)

\* ---------------------------------------------------------------- trees
RECURSIVE GetAt(_, _)
GetAt(node, path) ==
    IF path = <<>> THEN node ELSE GetAt(node.kids[Head(path)], Tail(path))

RECURSIVE SetAt(_, _, _)
SetAt(node, path, val) ==
    IF path = <<>> THEN val
    ELSE [node EXCEPT !.kids[Head(path)] = SetAt(@, Tail(path), val)]

\* The assignment made on a copy: the caller's mapping keeps its value.
SetItemOnCopy(config, path, idx, val) == config

\* config[key] = value
SetItem(config, path, idx, val) == SetAt(config, Append(path, idx), val)

\* isinstance(value, dict) in mutate_config
IsMapping(value) == IsInstance(value, "dict")

\* Paths of all nodes below (and including) node.
RECURSIVE Paths(_)
Paths(node) ==
    {<<>>} \cup UNION { { <<i>> \o p : p \in Paths(node.kids[i]) } :
                        i \in 1..Len(node.kids) }

LeafPaths(node) == { p \in Paths(node) : GetAt(node, p).t # "dict" }
DictPaths(node) == { p \in Paths(node) : GetAt(node, p).t = "dict" }

\* ----------------------------------------------------- bounded input set
Leaves ==
    << PyStr(<<7, 7, 7>>), PyInt(3), PyBool(TRUE), PyFloat(6), PyList(<<1, 2>>),
       PyStr(<<7, 7>>), PyNone, PyBool(FALSE) >>

LeafAt(o) == Leaves[((o - 1) % Len(Leaves)) + 1]

\* Mappings of at most MaxKeys keys and nesting depth at most d; the leaves
\* are taken from Leaves in rotation starting after offset o, and at most one
\* value per mapping is itself a mapping.
RECURSIVE Trees(_, _)
Trees(d, o) ==
    LET flat(k) == [i \in 1..k |-> LeafAt(o + i)]
    IN  { PyDict(flat(k)) : k \in 0..MaxKeys }
        \cup
        (IF d <= 1 THEN {}
         ELSE UNION { { PyDict([flat(k) EXCEPT ![p] = sub]) :
                           p \in 1..k, sub \in Trees(d - 1, o + k) } :
                      k \in 1..MaxKeys })

InputTrees ==
    { t \in UNION { Trees(MaxDepth, o) : o \in 1..Len(Leaves) } :
        Cardinality(LeafPaths(t)) <= MaxLeaves }

Rates == {0, Scale \div 2, Scale}

\* ------------------------------------------------------------------ state
VARIABLES
    pc,             \* where the run is: parse, load, mutate, mutating, save,
                    \* lint, test, done
    args,           \* the parsed command line
    config,         \* the object main's `config` refers to
    mutated_config, \* what mutate_config returned to main
    stack,          \* the active calls of mutate_config: [path, idx]
    outfile,        \* what this run did to the output path
    return_code,    \* <<rc>> once run_test_command returned
    exit_code,      \* <<code>> once the process ended
    report,         \* the last message main logged
    orig,           \* history: the tree as load_config returned it
    visits,         \* history: one entry per random.random() of mutate_config
    trace,          \* history: the stages that ran, with their outcome
    test_status     \* history: none, raised (invocation error) or exited

vars == << pc, args, config, mutated_config, stack, outfile, return_code,
           exit_code, report, orig, visits, trace, test_status >>

\* A path by what endswith() sees: "yaml" is .yaml or .yml, "json" is .json,
\* "txt" any other extension.
Exts == {"yaml", "json", "txt"}

NoArgs ==
    [config_file |-> "yaml", mutation_rate |-> 0, output_file |-> "none",
     test_command |-> "none", lint |-> FALSE]

\* What parse_args can deliver: the paths by their extension, the test
\* command as absent, a template str.format accepts, or one it rejects.
ArgSpace ==
    [config_file : Exts, mutation_rate : Rates, output_file : {"none"} \cup Exts,
     test_command : {"none", "ok", "badfmt"}, lint : BOOLEAN]

\* The documents the input file can hold: mappings, and documents whose top
\* level is no mapping (an empty YAML file, a JSON array).
FileDocs ==
    { PyDict(<<PyBool(TRUE), PyDict(<<PyStr(<<7, 7>>), PyNone>>)>>),
      PyNone, PyList(<<1, 2>>) }

FileStates ==
    { [kind |-> k, doc |-> Unset] : k \in {"absent", "unreadable", "malformed"} }
    \cup { [kind |-> "ok", doc |-> d] : d \in FileDocs }

\* A stage that ran: whether the code took it as passed, and what the
\* environment did to it.
Stage(name, ok, why) == [stage |-> name, ok |-> ok, why |-> why]

LintCause(run) ==
    IF run.raised # "none" THEN run.raised
    ELSE IF run.returncode # 0 THEN "nonzero" ELSE "zero"

Raised(exc) == [exc |-> exc, value |-> Unset]
Returned(v) == [exc |-> "none", value |-> v]

\* load_config with a parse error swallowed: an empty mapping is returned.
load_config_swallow_parse_error(config_file, file) ==
    IF file.kind = "absent" THEN Raised("FileNotFoundError")
    ELSE IF file.kind = "unreadable" THEN Raised("OSError")
    ELSE IF config_file \in {"yaml", "json"}
    THEN IF file.kind = "malformed" THEN Returned(PyDict(<<>>))
         ELSE Returned(file.doc)
    ELSE Raised("ValueError")

\* load_config(config_file)
load_config(config_file, file) ==
    IF file.kind = "absent" THEN Raised("FileNotFoundError")
    ELSE IF file.kind = "unreadable" THEN Raised("OSError")
    ELSE IF config_file = "yaml"
    THEN IF file.kind = "malformed" THEN Raised("YAMLError") ELSE Returned(file.doc)
    ELSE IF config_file = "json"
    THEN IF file.kind = "malformed" THEN Raised("JSONDecodeError")
         ELSE Returned(file.doc)
    ELSE Raised("ValueError")

\* The except clauses of main: every exception ends the run with code 1.
ExceptHandler(exc) ==
    IF exc = "FileNotFoundError"
    THEN [code |-> ExitFailure, msg |-> "File not found"]
    ELSE IF exc \in {"ValueError", "JSONDecodeError"}
    THEN [code |-> ExitFailure, msg |-> "Value error"]
    ELSE [code |-> ExitFailure, msg |-> "An unexpected error occurred"]

\* output_file = args.output_file if args.output_file else args.config_file
OutputFile(a) == IF a.output_file # "none" THEN a.output_file ELSE a.config_file

\* save_config(config, output_file): the exception raised and what happened
\* to the file. open(..., "w") truncates before the extension is looked at.
save_config(output_file, io) ==
    IF io = "open_fails" THEN [exc |-> "OSError", file |-> "untouched"]
    ELSE IF output_file \in {"yaml", "json"}
    THEN IF io = "dump_fails" THEN [exc |-> "TypeError", file |-> "truncated"]
         ELSE [exc |-> "none", file |-> "written"]
    ELSE [exc |-> "ValueError", file |-> "truncated"]

LintRuns ==
    { [raised |-> r, returncode |-> 0] : r \in {"FileNotFoundError", "OSError"} }
    \cup { [raised |-> "none", returncode |-> c] : c \in {0, 1} }

\* lint_config with a missing linter taken as "nothing to lint".
lint_config_missing_tool_skips(config_file, run) ==
    IF config_file \in {"yaml", "json"}
    THEN IF run.raised = "FileNotFoundError" THEN TRUE
         ELSE IF run.raised # "none" THEN FALSE ELSE run.returncode = 0
    ELSE TRUE

\* lint_config(config_file)
lint_config(config_file, run) ==
    IF config_file \in {"yaml", "json"}
    THEN IF run.raised # "none" THEN FALSE ELSE run.returncode = 0
    ELSE TRUE

\* subprocess.run(...).returncode of a shell that ran: its exit status, or
\* -N when signal N ended it.
Signals == {1, 9}
ProcessReturnCodes == {0, 1, 127} \cup { 0 - sig : sig \in Signals }

TestRuns ==
    { [raised |-> TRUE, returncode |-> 0] }
    \cup { [raised |-> FALSE, returncode |-> c] : c \in ProcessReturnCodes }

\* run_test_command(config_file, test_command)
run_test_command(test_command, run) ==
    IF test_command = "badfmt" \/ run.raised
    THEN [status |-> "raised", rc |-> InvocationErrorCode]
    ELSE [status |-> "exited", rc |-> run.returncode]

\* main with `return_code > 0` for `return_code != 0`.
MainTestVerdictPositiveOnly(rc) ==
    IF rc > 0 THEN [code |-> ExitFailure, msg |-> "Test command failed."]
    ELSE [code |-> ExitSuccess, msg |-> "Test command passed."]

\* main: if return_code != 0: ... return 1, else: ... return 0
MainTestVerdict(rc) ==
    IF rc # 0 THEN [code |-> ExitFailure, msg |-> "Test command failed."]
    ELSE [code |-> ExitSuccess, msg |-> "Test command passed."]

\* mutate_config without its `return config`: the call yields None.
mutate_config_no_return(cfg) == PyNone

\* return config
mutate_config_return(cfg) == cfg

\* random.random() <= mutation_rate
SelectedInclusive(draw, rate) == draw <= rate

\* random.random() < mutation_rate
Selected(draw, rate) == draw < rate

Visit(path, draw, applied, before, res) ==
    [path |-> path, draw |-> draw, applied |-> applied, before |-> before,
     after |-> res.value, calls |-> res.calls, warned |-> res.warned]

Top == stack[Len(stack)]

Init ==
    /\ pc = "parse"
    /\ args = NoArgs
    /\ config = Unset
    /\ mutated_config = Unset
    /\ stack = <<>>
    /\ outfile = "untouched"
    /\ return_code = <<>>
    /\ exit_code = <<>>
    /\ report = ""
    /\ orig = Unset
    /\ visits = <<>>
    /\ trace = <<>>
    /\ test_status = "none"

\* One call mutate_config(T, rate), T a mapping of the input set.
InitEngine ==
    /\ pc = "mutate"
    /\ args \in { [NoArgs EXCEPT !.mutation_rate = r] : r \in Rates }
    /\ config \in InputTrees
    /\ orig = config
    /\ mutated_config = Unset
    /\ stack = <<>>
    /\ outfile = "untouched"
    /\ return_code = <<>>
    /\ exit_code = <<>>
    /\ report = ""
    /\ visits = <<>>
    /\ trace = <<>>
    /\ test_status = "none"

Exit(code, msg) ==
    /\ pc' = "done"
    /\ exit_code' = <<code>>
    /\ report' = msg

\* parser.parse_args(): a usage error or --help ends the process there.
ParseArgs ==
    /\ pc = "parse"
    /\ \E outcome \in {"usage", "help", "ok"} :
         IF outcome = "ok"
         THEN /\ \E a \in ArgSpace : args' = a
              /\ pc' = "load"
              /\ UNCHANGED << exit_code, report >>
         ELSE /\ Exit(IF outcome = "usage" THEN ExitUsage ELSE ExitSuccess,
                      "SystemExit")
              /\ UNCHANGED args
    /\ UNCHANGED << config, mutated_config, stack, outfile, return_code, orig,
                    visits, trace, test_status >>

LoadConfig ==
    /\ pc = "load"
    /\ \E file \in FileStates :
         LET r == load_config(args.config_file, file)
         IN  IF r.exc = "none"
             THEN /\ config' = r.value
                  /\ orig' = r.value
                  /\ trace' = Append(trace, Stage("load", TRUE, file.kind))
                  /\ pc' = "mutate"
                  /\ UNCHANGED << exit_code, report >>
             ELSE /\ trace' = Append(trace, Stage("load", FALSE, file.kind))
                  /\ Exit(ExceptHandler(r.exc).code, ExceptHandler(r.exc).msg)
                  /\ UNCHANGED << config, orig >>
    /\ UNCHANGED << args, mutated_config, stack, outfile, return_code, visits,
                    test_status >>

\* mutate_config(config, rate) is entered: config.items() of a mapping.
MutateCall ==
    /\ pc = "mutate"
    /\ config.t = "dict"
    /\ stack' = << [path |-> <<>>, idx |-> 1] >>
    /\ pc' = "mutating"
    /\ UNCHANGED << args, config, mutated_config, outfile, return_code,
                    exit_code, report, orig, visits, trace, test_status >>

\* config.items() of a document that is no mapping raises AttributeError.
MutateCallRaise ==
    /\ pc = "mutate"
    /\ config.t # "dict"
    /\ trace' = Append(trace, Stage("mutate", FALSE, "AttributeError"))
    /\ Exit(ExceptHandler("AttributeError").code,
            ExceptHandler("AttributeError").msg)
    /\ UNCHANGED << args, config, mutated_config, stack, outfile, return_code,
                    orig, visits, test_status >>

\* The loop reaches a value that is a mapping: the recursive call.
VisitDict ==
    /\ pc = "mutating"
    /\ LET d == GetAt(config, Top.path)
       IN  /\ Top.idx <= Len(d.kids)
           /\ IsMapping(d.kids[Top.idx])
           /\ stack' = Append(stack, [path |-> Append(Top.path, Top.idx),
                                      idx |-> 1])
    /\ UNCHANGED << pc, args, config, mutated_config, outfile, return_code,
                    exit_code, report, orig, visits, trace, test_status >>

\* The loop reaches any other value: one draw, and mutate_value if selected.
VisitLeaf ==
    /\ pc = "mutating"
    /\ LET d == GetAt(config, Top.path)
           here == Append(Top.path, Top.idx)
       IN  /\ Top.idx <= Len(d.kids)
           /\ ~IsMapping(d.kids[Top.idx])
           /\ \E draw \in UniformDraws :
                LET value == d.kids[Top.idx]
                IN  IF Selected(draw, args.mutation_rate)
                    THEN \E res \in mutate_value(value) :
                           /\ config' = SetItem(config, Top.path, Top.idx,
                                                res.value)
                           /\ visits' = Append(visits,
                                  Visit(here, draw, TRUE, value, res))
                    ELSE /\ config' = config
                         /\ visits' = Append(visits,
                                Visit(here, draw, FALSE, value,
                                      MvResult(value, 0, FALSE)))
    /\ stack' = [stack EXCEPT ![Len(stack)].idx = @ + 1]
    /\ UNCHANGED << pc, args, mutated_config, outfile, return_code, exit_code,
                    report, orig, trace, test_status >>

\* The loop is over: return config, to main or to the caller's
\* config[key] = mutate_config(value, mutation_rate).
MutateReturn ==
    /\ pc = "mutating"
    /\ Top.idx > Len(GetAt(config, Top.path).kids)
    /\ LET ret == mutate_config_return(GetAt(config, Top.path))
       IN  IF Len(stack) = 1
           THEN /\ mutated_config' = ret
                /\ stack' = <<>>
                /\ trace' = Append(trace, Stage("mutate", TRUE, "none"))
                /\ pc' = "save"
                /\ UNCHANGED config
           ELSE /\ config' = SetAt(config, Top.path, ret)
                /\ stack' = [SubSeq(stack, 1, Len(stack) - 1)
                               EXCEPT ![Len(stack) - 1].idx = @ + 1]
                /\ UNCHANGED << mutated_config, trace, pc >>
    /\ UNCHANGED << args, outfile, return_code, exit_code, report, orig,
                    visits, test_status >>

\* main without `if args.lint:`: the linter always runs.
AfterSaveAlwaysLint(a) == "lint"

\* After a stage that passed: the next stage main enters, or its verdict.
AfterSave(a) ==
    IF a.lint THEN "lint" ELSE IF a.test_command # "none" THEN "test" ELSE "done"
AfterLint(a) == IF a.test_command # "none" THEN "test" ELSE "done"

Continue(next) ==
    IF next = "done"
    THEN Exit(ExitSuccess, "Configuration mutated successfully.")
    ELSE /\ pc' = next
         /\ UNCHANGED << exit_code, report >>

SaveConfig ==
    /\ pc = "save"
    /\ \E io \in {"ok", "open_fails", "dump_fails"} :
         LET r == save_config(OutputFile(args), io)
         IN  /\ outfile' = r.file
             /\ trace' = Append(trace, Stage("persist", r.exc = "none", io))
             /\ IF r.exc = "none"
                THEN Continue(AfterSave(args))
                ELSE Exit(ExceptHandler(r.exc).code, ExceptHandler(r.exc).msg)
    /\ UNCHANGED << args, config, mutated_config, stack, return_code, orig,
                    visits, test_status >>

LintConfig ==
    /\ pc = "lint"
    /\ \E run \in LintRuns :
         LET passed == lint_config(OutputFile(args), run)
         IN  /\ trace' = Append(trace, Stage("lint", passed, LintCause(run)))
             /\ IF passed
                THEN Continue(AfterLint(args))
                ELSE Exit(ExitFailure, "Linting failed.  Aborting test.")
    /\ UNCHANGED << args, config, mutated_config, stack, outfile, return_code,
                    orig, visits, test_status >>

RunTestCommand ==
    /\ pc = "test"
    /\ \E run \in TestRuns :
         LET r == run_test_command(args.test_command, run)
         IN  /\ return_code' = <<r.rc>>
             /\ test_status' = r.status
             /\ trace' = Append(trace, Stage("test", r.rc = 0, r.status))
             /\ Exit(MainTestVerdict(r.rc).code, MainTestVerdict(r.rc).msg)
    /\ UNCHANGED << args, config, mutated_config, stack, outfile, orig, visits >>

NextEngine == MutateCall \/ VisitDict \/ VisitLeaf \/ MutateReturn

Next ==
    \/ ParseArgs
    \/ LoadConfig
    \/ MutateCall
    \/ MutateCallRaise
    \/ VisitDict
    \/ VisitLeaf
    \/ MutateReturn
    \/ SaveConfig
    \/ LintConfig
    \/ RunTestCommand

Spec == Init /\ [][Next]_vars
SpecEngine == InitEngine /\ [][NextEngine]_vars

\* ================================================================ claims
Ran(name) == \E i \in DOMAIN trace : trace[i].stage = name
Passed(name) == \E i \in DOMAIN trace : trace[i].stage = name /\ trace[i].ok
StageIdx(name) ==
    CASE name = "load" -> 1 [] name = "mutate" -> 2 [] name = "persist" -> 3
      [] name = "lint" -> 4 [] name = "test" -> 5

Rate == args.mutation_rate
MutateReturned == pc = "save"

\* The linter exited nonzero, was not found, or failed some other way.
LintRunFailed ==
    \E i \in DOMAIN trace :
        /\ trace[i].stage = "lint"
        /\ trace[i].why \in {"nonzero", "FileNotFoundError", "OSError"}

\* C1: in a run where lint was requested and the linter exited nonzero, was
\* not found or failed otherwise, the test command is never invoked and the
\* run ends with exit code 1, whether or not a test command was configured.
C1_LintGate ==
    LintRunFailed =>
        /\ args.lint
        /\ ~Ran("test")
        /\ return_code = <<>>
        /\ test_status = "none"
        /\ pc = "done"
        /\ exit_code = <<ExitFailure>>

C1_Witness ==
    /\ LintRunFailed
    /\ trace[Len(trace)].why = "FileNotFoundError"
    /\ args.test_command = "ok"
    /\ pc = "done"

\* The input file is absent, unreadable or malformed, or its extension is
\* not supported.
LoadFailed ==
    \E i \in DOMAIN trace :
        /\ trace[i].stage = "load"
        /\ \/ ~trace[i].ok
           \/ trace[i].why \in {"absent", "unreadable", "malformed"}
           \/ args.config_file \notin {"yaml", "json"}

\* C2: when the load stage fails the run ends with exit code 1 and none of
\* mutate, persist, lint or test ran; the output file is left untouched.
C2_LoadFailureStops ==
    LoadFailed =>
        /\ pc = "done"
        /\ exit_code = <<ExitFailure>>
        /\ Len(trace) = 1
        /\ config = Unset
        /\ mutated_config = Unset
        /\ visits = <<>>
        /\ stack = <<>>
        /\ outfile = "untouched"
        /\ return_code = <<>>

C2_Witness ==
    /\ LoadFailed
    /\ trace[1].why = "malformed"
    /\ args.config_file = "json"
    /\ args.output_file = "yaml"
    /\ args.lint
    /\ args.test_command = "ok"

\* Load and persist succeeded, lint (if requested) passed and the test
\* command (if configured) exited with code 0.
AllStagesPassed ==
    /\ Passed("load")
    /\ Passed("persist")
    /\ outfile = "written"
    /\ args.lint => Passed("lint")
    /\ args.test_command # "none" =>
          test_status = "exited" /\ return_code = <<0>>

ExitContract ==
    /\ exit_code \in {<<ExitSuccess>>, <<ExitFailure>>}
    /\ exit_code = <<ExitSuccess>> <=> AllStagesPassed

\* C3 as stated: every run of main ends with exit code 0 or 1, and with 0
\* exactly when load and persist succeeded, the requested lint passed and the
\* configured test command exited 0.
C3_EveryRun == pc = "done" => ExitContract

\* C3 amended: the same, for every run whose command line parse_args
\* accepted (a usage error ends the process with code 2 and --help with
\* code 0, before the load stage).
C3_ParsedRuns == (pc = "done" /\ Ran("load")) => ExitContract

C3_Witness ==
    /\ pc = "done"
    /\ args.lint
    /\ args.test_command = "ok"
    /\ exit_code = <<ExitSuccess>>
    /\ mutated_config # orig

\* C4: the stages run in the order load, mutate, persist, lint, test, each at
\* most once, lint only if requested and the test command only if configured;
\* a stage runs only if every stage that ran before it passed, so lint and
\* the test command run only after the mutated tree was persisted.
C4_StageOrder ==
    /\ \A i, j \in DOMAIN trace :
          i < j => StageIdx(trace[i].stage) < StageIdx(trace[j].stage)
    /\ \A i \in DOMAIN trace : i < Len(trace) => trace[i].ok
    /\ Ran("mutate") => Ran("load")
    /\ Ran("persist") => Ran("mutate")
    /\ Ran("lint") => args.lint
    /\ Ran("test") => args.test_command # "none"
    /\ (Ran("lint") \/ Ran("test")) =>
          /\ Passed("persist")
          /\ outfile = "written"
          /\ mutated_config # Unset

C4_Witness ==
    /\ pc = "done"
    /\ Len(trace) = 5
    /\ trace[5].stage = "test"
    /\ ~trace[5].ok

\* The key set and nesting structure of a tree: leaves lose their value.
RECURSIVE Shape(_)
Shape(node) ==
    IF node.t = "dict"
    THEN [t |-> "dict", s |-> node.s,
          kids |-> [i \in 1..Len(node.kids) |-> Shape(node.kids[i])]]
    ELSE [t |-> "leaf", s |-> <<>>, kids |-> <<>>]

\* C5: the tree mutate_config returns has the key set and the nesting
\* structure of the tree it was given, whatever the rate.
C5_ShapePreserved == MutateReturned => Shape(mutated_config) = Shape(orig)

C5_Witness ==
    /\ MutateReturned
    /\ Rate = Scale
    /\ mutated_config # orig
    /\ \E p \in DictPaths(orig) : p # <<>> /\ GetAt(orig, p).kids # <<>>
    /\ \E i \in DOMAIN visits : visits[i].before.t # visits[i].after.t

\* C6: the Value Mutator applied to a boolean returns its negation, a
\* boolean, and takes no draw from the random source.
C6_BoolNegated ==
    \A i \in DOMAIN visits :
        (visits[i].applied /\ visits[i].before.t = "bool") =>
            /\ visits[i].after = PyBool(visits[i].before.n = 0)
            /\ visits[i].calls = 0

\* C7 as stated: after mutate_config returned, the caller's tree holds the
\* values it held before the call.
C7_InputUntouched == MutateReturned => config = orig

\* C7 amended: mutate_config works in place and returns the tree it was
\* given: after the call the caller's tree holds the values of the returned
\* tree, every leaf that was selected holding the Value Mutator's result.
C7_InPlace ==
    MutateReturned =>
        /\ config = mutated_config
        /\ \A i \in DOMAIN visits :
              visits[i].applied => GetAt(config, visits[i].path) = visits[i].after

C7_Witness ==
    /\ MutateReturned
    /\ config # orig
    /\ \E i \in DOMAIN visits : Len(visits[i].path) = 2 /\ visits[i].applied
                                 /\ visits[i].after # visits[i].before

\* C8: a test command that could not be invoked is reported apart from one
\* that ran and exited nonzero: run_test_command's value for it is no return
\* code of a process that ran, and main's outcome differs from the one it
\* gives for a nonzero exit.
C8_InvocationErrorDistinguished ==
    (pc = "done" /\ test_status = "raised") =>
        /\ return_code[1] \notin ProcessReturnCodes
        /\ \A rc \in ProcessReturnCodes \ {0} :
              [code |-> exit_code[1], msg |-> report] # MainTestVerdict(rc)

VisitsOf(p) == { i \in DOMAIN visits : visits[i].path = p }

\* C9: mutate_config draws once per leaf and never for a mapping; a leaf holds
\* the Value Mutator's result exactly when its draw is below the rate and its
\* old value otherwise; at rate 0 the returned tree equals the input.
C9_OneDrawPerLeaf ==
    MutateReturned =>
        /\ \A p \in LeafPaths(orig) : Cardinality(VisitsOf(p)) = 1
        /\ \A i \in DOMAIN visits :
              LET v == visits[i]
              IN  /\ v.path \in LeafPaths(orig)
                  /\ v.before = GetAt(orig, v.path)
                  /\ v.applied <=> v.draw < Rate
                  /\ v.applied =>
                        v.after \in { r.value : r \in mutate_value(v.before) }
                  /\ GetAt(mutated_config, v.path) =
                        IF v.draw < Rate THEN v.after ELSE v.before
        /\ Rate = 0 => mutated_config = orig

C9_Witness ==
    /\ MutateReturned
    /\ Rate = Scale \div 2
    /\ \E i, j \in DOMAIN visits :
          /\ visits[i].applied /\ visits[i].after # visits[i].before
          /\ ~visits[j].applied /\ visits[j].draw >= Rate
    /\ \E p \in DictPaths(orig) : p # <<>>

Supported == {"str", "int", "float", "bool"}

\* C10: a leaf that is no string, integer, float or boolean is returned
\* unchanged by the Value Mutator and by mutate_config even when its draw
\* selects it, and the unsupported-type warning is logged then; the elements
\* of a sequence are never mutated.
C10_UnsupportedPassthrough ==
    /\ \A i \in DOMAIN visits :
          LET v == visits[i]
          IN  v.before.t \notin Supported =>
                 /\ v.after = v.before
                 /\ GetAt(config, v.path) = v.before
                 /\ v.warned <=> v.applied
    /\ MutateReturned =>
          \A p \in LeafPaths(orig) :
              GetAt(orig, p).t \notin Supported =>
                  GetAt(mutated_config, p) = GetAt(orig, p)

C10_Witness ==
    /\ MutateReturned
    /\ Rate = Scale
    /\ \E i \in DOMAIN visits :
          /\ visits[i].before.t = "list"
          /\ visits[i].applied
          /\ visits[i].warned
    /\ \E i \in DOMAIN visits : visits[i].before.t = "none"

====
